---- MODULE Spec2Model ----
(***************************************************************************)
(* Model of the attachment intake pipeline of the chat client              *)
(* (frontend/src/scripts/attachments.ts): the AttachmentManager singleton, *)
(* its attachments list, the two file-input change handlers with their     *)
(* await points (content sniffing, image compression), the link adders,    *)
(* removal, clear and the preview re-rendering.                            *)
(*                                                                         *)
(* Scheduling follows the JavaScript event loop: the code between two      *)
(* awaits runs atomically; a handler that is ready to continue (pc =       *)
(* "next") is a queued microtask and runs before any further user or API   *)
(* event; a handler suspended in fileTypeFromBlob or compressAttachment    *)
(* lets every other event in.                                              *)
(***************************************************************************)
EXTENDS Integers, Sequences, FiniteSets, TLC

(***************************************************************************)
(* Bounds of the model.                                                    *)
(***************************************************************************)
\* Number of change-event handler invocations that can be alive at once.
NumHandlers == 2
\* Candidates and links submitted over a run of each environment.
MaxId == 3
MaxIdImages == 11
MaxIdFiles == 5
MaxIdIntake == 2
MaxIdLinks == 3
MaxIdBatches == 11
MaxIdLive == 3
MaxIdToggle == 4

Handlers == 1..NumHandlers

(***************************************************************************)
(* Program constants.                                                      *)
(***************************************************************************)
MiB == 1024 * 1024

MAX_FILE_SIZE_BYTES == 10 * 1024 * 1024

MAX_TOTAL_FILE_SIZE_BYTES == 10 * 1024 * 1024

MAX_SIZE_BYTES == 10 * 1024 * 1024

MAX_IMAGES == 8

SUPPORTED_TEXT_EXTENSIONS ==
    { "js", "jsx", "ts", "tsx", "py", "java", "rb", "php", "cs", "go", "rs",
      "c", "cpp", "h", "hpp",
      "sh", "bash",
      "html", "css", "scss", "sass", "vue", "svelte",
      "json", "yaml", "yml", "toml", "ini", "env",
      "csv", "xml", "sql",
      "md", "mdx", "txt", "log" }

\* A MIME type "major/minor" is the pair <<major, minor>>; the empty string
\* (no declared type) is <<>>.
SUPPORTED_TYPES ==
    { <<"image", "jpeg">>, <<"image", "png">>, <<"image", "webp">>,
      <<"image", "gif">> }

SAFE_TEXT_MIME_TYPES ==
    { <<"text", "plain">>, <<"text", "html">>, <<"text", "css">>,
      <<"text", "javascript">>, <<"text", "csv">>, <<"text", "xml">>,
      <<"text", "markdown">>, <<"application", "json">>,
      <<"application", "xml">>, <<"application", "x-yaml">>,
      <<"text", "x-yaml">>, <<"application", "javascript">>,
      <<"application", "x-sh">> }

(***************************************************************************)
(* Pure helpers of the source.                                             *)
(***************************************************************************)
\* String.prototype.toLowerCase on the name pieces the model uses.
toLowerCase(s) ==
    CASE s = "TXT" -> "txt"
      [] s = "Py" -> "py"
      [] s = "EXE" -> "exe"
      [] OTHER -> s

\* String.prototype.startsWith(major + "/") on a MIME pair.
startsWith(mime, major) == Len(mime) > 0 /\ mime[1] = major

\* A file name is the sequence of pieces filename.split('.') yields.
getFileExtension(filename) ==
    IF Len(filename) > 1 THEN toLowerCase(filename[Len(filename)]) ELSE ""

isSupportedTextFile(extension) == extension \in SUPPORTED_TEXT_EXTENSIONS

isTextMimeType(mimeType) ==
    IF startsWith(mimeType, "text") THEN TRUE
    ELSE mimeType \in SAFE_TEXT_MIME_TYPES

\* A URL is the sequence of its fragments; includes(frag) finds one of them.
includes(url, frag) == \E i \in 1..Len(url) : url[i] = frag

\* Array.prototype.splice(start, deleteCount) with the indices of
\* ECMAScript: a negative start counts from the end, both ends are clamped.
\* The sequence is 1-based here, start is the 0-based JavaScript index.
spliceStart(len, start) ==
    IF start < 0 THEN (IF len + start > 0 THEN len + start ELSE 0)
    ELSE (IF start < len THEN start ELSE len)

spliceCount(len, actualStart, deleteCount) ==
    LET dc == IF deleteCount > 0 THEN deleteCount ELSE 0
    IN  IF dc < len - actualStart THEN dc ELSE len - actualStart

splice(s, start, deleteCount) ==
    LET a == spliceStart(Len(s), start)
        d == spliceCount(Len(s), a, deleteCount)
    IN  SubSeq(s, 1, a) \o SubSeq(s, a + d + 1, Len(s))

(***************************************************************************)
(* The external collaborators, by what they can answer.                    *)
(***************************************************************************)
\* fileTypeFromBlob looks at the bytes only.  The bytes of a File are one of
\*   "text"  UTF-8 text without a known signature,
\*   "xml"   UTF-8 text starting with a signature the library knows,
\*   "png"   a binary format the library knows,
\*   "raw"   bytes that are not UTF-8 and carry no known signature.
\* The result is <<>> (undefined) or <<format>>.
fileTypeFromBlob(file) ==
    CASE file.bytes = "png" -> << [ext |-> "png", mime |-> <<"image", "png">>] >>
      [] file.bytes = "xml" -> << [ext |-> "xml", mime |-> <<"application", "xml">>] >>
      [] OTHER -> << >>

\* Whether a TextDecoder would decode the bytes as UTF-8.
DecodesAsUtf8(file) == file.bytes \in {"text", "xml"}

\* ImageCompressor.compressAttachment resolves with a Blob of any size.
CompressOutcomes == {"smaller", "equal", "larger"}

compressAttachment(file, outcome) ==
    [ size |-> CASE outcome = "smaller" -> file.size \div 2
                 [] outcome = "equal" -> file.size
                 [] OTHER -> file.size + 1,
      type |-> <<"image", "webp">> ]

(***************************************************************************)
(* State.                                                                  *)
(***************************************************************************)
VARIABLES
    attachments,     \* AttachmentManager.attachments
    compressImages,  \* AttachmentManager.compressImages
    preview,         \* the buttons rendered in #attachmentPreview
    pc,              \* per handler invocation: where it is suspended
    kind,            \* per handler invocation: 'image' or 'file' input
    files,           \* per handler invocation: the selected files
    idx,             \* per handler invocation: loop position (1-based)
    nextId,          \* history: next submission ordinal
    last,            \* history: the operation that produced this state
    solo             \* history: handler running undisturbed from an empty list

vars == << attachments, compressImages, preview, pc, kind, files, idx,
           nextId, last, solo >>

\* interface Attachment.  file, url and sizeBytes are optional: <<>> or
\* <<value>>; no object literal of the source gives sizeBytes a value.
\* id, orig and via are history fields: the submission ordinal, the size of
\* the candidate as submitted and the operation that appended the record.
Attachment(type, file, url, name, id, orig, via) ==
    [ type |-> type, file |-> file, url |-> url, name |-> name,
      sizeBytes |-> << >>,
      id |-> id, orig |-> orig, via |-> via ]

\* a.file?.size || 0
fileSizeOrZero(a) == IF a.file = << >> THEN 0 ELSE a.file[1].size

RECURSIVE sumSizes(_)
sumSizes(s) == IF s = << >> THEN 0 ELSE fileSizeOrZero(Head(s)) + sumSizes(Tail(s))

\* Faulty variant: the sum runs over every attachment, whatever its type.
currentTotalSize_AllTypes(atts) == sumSizes(atts)

\* this.attachments.filter(a => a.type === 'file').reduce(...)
currentTotalSize(atts) ==
    sumSizes(SelectSeq(atts, LAMBDA a : a.type = "file"))

\* this.attachments.filter((att) => att.type === 'image').length
currentImageCount(atts) ==
    Len(SelectSeq(atts, LAMBDA a : a.type = "image"))

\* updateAttachmentPreview: one remove button per attachment, carrying its
\* 0-based position in data-attachment-index.
Rendered(atts) ==
    [ i \in 1..Len(atts) |-> [index |-> i - 1, att |-> atts[i]] ]

\* History of one operation: what it was, the candidate or position it was
\* about, how it ended, and what compressAttachment answered in it.
NotAsked == [res |-> "none", size |-> 0]

Resolved(blob) == [res |-> "resolved", size |-> blob.size]

Threw == [res |-> "threw", size |-> 0]

Event(op, arg, res) ==
    [op |-> op, arg |-> arg, res |-> res, compressor |-> NotAsked]

EventAfter(op, arg, res, answer) ==
    [op |-> op, arg |-> arg, res |-> res, compressor |-> answer]

Init ==
    /\ attachments = << >>
    /\ compressImages \in BOOLEAN
    /\ preview = << >>
    /\ pc = [p \in Handlers |-> "idle"]
    /\ kind = [p \in Handlers |-> "image"]
    /\ files = [p \in Handlers |-> << >>]
    /\ idx = [p \in Handlers |-> 0]
    /\ nextId = 1
    /\ last = Event("init", 0, "")
    /\ solo = 0

(***************************************************************************)
(* addAttachment: the gates, in the order of the source.                   *)
(***************************************************************************)
NewFile(name, type, size, bytes) ==
    [name |-> name, type |-> type, size |-> size, bytes |-> bytes]

\* SUPPORTED_TYPES.indexOf(file.type) === -1
imageFormatUnsupported(file) == file.type \notin SUPPORTED_TYPES

\* Faulty variant: the ceiling is ten times too high (100 MB for 10 MB).
imageTooLarge_TenfoldCeiling(file) == file.size > MAX_SIZE_BYTES * 10

\* file.size > MAX_SIZE_BYTES
imageTooLarge(file) == file.size > MAX_SIZE_BYTES

\* Faulty variant: the comparison lets one more image through.
imageLimitReached_OffByOne(atts) == currentImageCount(atts) > MAX_IMAGES

\* currentImageCount >= MAX_IMAGES
imageLimitReached(atts) == currentImageCount(atts) >= MAX_IMAGES

\* The synchronous image gates; "none" when the candidate passes them all.
imageRejection(file, atts) ==
    IF imageFormatUnsupported(file) THEN "unsupported-format"
    ELSE IF imageTooLarge(file) THEN "too-large"
    ELSE IF imageLimitReached(atts) THEN "image-limit"
    ELSE "none"

\* Faulty variant: the toggle is not looked at.
compressionWanted_IgnoringToggle(file, enabled) == startsWith(file.type, "image")

\* type === 'image' && this.compressImages && file.type.startsWith('image/')
compressionWanted(file, enabled) == enabled /\ startsWith(file.type, "image")

\* Faulty variant: the compressor's output is used whatever its size.
processedFile_AlwaysRecoded(file, blob) ==
    NewFile(file.name, blob.type, blob.size, "recoded")

\* compressedBlob.size < file.size ? new File([blob], file.name, ...) : file
processedFile(file, blob) ==
    IF blob.size < file.size
    THEN NewFile(file.name, blob.type, blob.size, "recoded")
    ELSE file

\* file.size > MAX_FILE_SIZE_BYTES
fileTooLarge(file) == file.size > MAX_FILE_SIZE_BYTES

\* Faulty variant: the candidate's own size is left out of the sum.
totalSizeExceeded_WithoutCandidate(file, atts) ==
    currentTotalSize(atts) > MAX_TOTAL_FILE_SIZE_BYTES

\* currentTotalSize + file.size > MAX_TOTAL_FILE_SIZE_BYTES
totalSizeExceeded(file, atts) ==
    currentTotalSize(atts) + file.size > MAX_TOTAL_FILE_SIZE_BYTES

\* file.type && !this.isTextMimeType(file.type)
binaryMimeType(file) == file.type # << >> /\ ~isTextMimeType(file.type)

\* Faulty variant: the result of the sniffing is not looked at.
fileRejection_IgnoringDetection(file, detectedType, atts) ==
    IF binaryMimeType(file) THEN "binary-mime"
    ELSE IF fileTooLarge(file) THEN "too-large"
    ELSE IF totalSizeExceeded(file, atts) THEN "total-size"
    ELSE "none"

\* Faulty variant: the size gates come before the content and MIME gates.
fileRejection_SizeFirst(file, detectedType, atts) ==
    IF fileTooLarge(file) THEN "too-large"
    ELSE IF totalSizeExceeded(file, atts) THEN "total-size"
    ELSE IF detectedType # << >> THEN "binary-content"
    ELSE IF binaryMimeType(file) THEN "binary-mime"
    ELSE "none"

\* The file gates that follow the await of fileTypeFromBlob.
fileRejection(file, detectedType, atts) ==
    IF detectedType # << >> THEN "binary-content"
    ELSE IF binaryMimeType(file) THEN "binary-mime"
    ELSE IF fileTooLarge(file) THEN "too-large"
    ELSE IF totalSizeExceeded(file, atts) THEN "total-size"
    ELSE "none"

(***************************************************************************)
(* Scheduling.                                                             *)
(***************************************************************************)
\* No continuation is queued: the event loop may take the next event.
Quiescent == \A p \in Handlers : pc[p] # "next"

\* The handler slot holds no running invocation.
Free(p) == pc[p] = "idle"

Current(p) == files[p][idx[p]]

KeepSolo(p) == IF solo = p THEN p ELSE 0

\* Faulty variant: the record is put at the front (unshift) instead of the end.
Push_AtFront(a) ==
    /\ attachments' = <<a>> \o attachments
    /\ preview' = Rendered(attachments')

\* Faulty variant: the push is not followed by a re-rendering.
Push_WithoutRender(a) ==
    /\ attachments' = Append(attachments, a)
    /\ preview' = preview

\* this.attachments.push(a); this.updateAttachmentPreview()
Push(a) ==
    /\ attachments' = Append(attachments, a)
    /\ preview' = Rendered(attachments')

\* Faulty variant: the loop passes over a file.
Advance_SkippingOne(p) ==
    /\ idx' = [idx EXCEPT ![p] = idx[p] + 2]
    /\ pc' = [pc EXCEPT ![p] = "next"]
    /\ UNCHANGED << kind, files >>

\* The handler goes on to the next file of its loop.
Advance(p) ==
    /\ idx' = [idx EXCEPT ![p] = idx[p] + 1]
    /\ pc' = [pc EXCEPT ![p] = "next"]
    /\ UNCHANGED << kind, files >>

\* The handler is suspended in an awaited call.
Await(p, where) ==
    /\ pc' = [pc EXCEPT ![p] = where]
    /\ UNCHANGED << kind, files, idx >>

\* The invocation is over (its loop ran out, or an exception ended it) and
\* its locals are gone.
Finish(p) ==
    /\ pc' = [pc EXCEPT ![p] = "idle"]
    /\ kind' = [kind EXCEPT ![p] = "image"]
    /\ files' = [files EXCEPT ![p] = << >>]
    /\ idx' = [idx EXCEPT ![p] = 0]

(***************************************************************************)
(* The change handlers of #imageInput and #fileInput.                      *)
(***************************************************************************)
\* A change event with a non-empty FileList starts an invocation.
Submit(p, k, batch, maxId) ==
    /\ Quiescent
    /\ Free(p)
    /\ \A q \in Handlers : q < p => ~Free(q)
    /\ Len(batch) > 0
    /\ nextId + Len(batch) - 1 <= maxId
    /\ files' = [files EXCEPT ![p] =
                   [i \in 1..Len(batch) |-> [id |-> nextId + i - 1, file |-> batch[i]]]]
    /\ kind' = [kind EXCEPT ![p] = k]
    /\ idx' = [idx EXCEPT ![p] = 1]
    /\ pc' = [pc EXCEPT ![p] = "next"]
    /\ nextId' = nextId + Len(batch)
    /\ solo' = IF attachments = << >> /\ \A q \in Handlers : Free(q) THEN p ELSE 0
    /\ last' = Event("submit", nextId, k)
    /\ UNCHANGED << attachments, compressImages, preview >>

\* One turn of the image loop up to the next await: the filter of the
\* handler, then addAttachment('image', file) down to compressAttachment, or
\* to its return when nothing is awaited.
ImageHandlerStep(p) ==
    /\ pc[p] = "next"
    /\ kind[p] = "image"
    /\ solo' = KeepSolo(p)
    /\ UNCHANGED << compressImages, nextId >>
    /\ IF idx[p] > Len(files[p])
       THEN /\ Finish(p)
            /\ last' = Event("batch", Len(files[p]), "done")
            /\ UNCHANGED << attachments, preview >>
       ELSE LET it == Current(p)
                f == it.file
                why == imageRejection(f, attachments)
            IN  IF ~startsWith(f.type, "image")
                THEN /\ Advance(p)
                     /\ last' = Event("add", it.id, "skipped")
                     /\ UNCHANGED << attachments, preview >>
                ELSE IF why # "none"
                THEN /\ Advance(p)
                     /\ last' = Event("add", it.id, why)
                     /\ UNCHANGED << attachments, preview >>
                ELSE IF compressionWanted(f, compressImages)
                THEN /\ Await(p, "compress")
                     /\ last' = Event("add", it.id, "compressing")
                     /\ UNCHANGED << attachments, preview >>
                ELSE /\ Push(Attachment("image", <<f>>, << >>, f.name,
                                        it.id, f.size, "addAttachment"))
                     /\ Advance(p)
                     /\ last' = Event("add", it.id, "committed")

\* compressAttachment resolves: keep the smaller of the two, push.
CompressReturn(p, outcome) ==
    /\ pc[p] = "compress"
    /\ LET it == Current(p)
           f == it.file
           blob == compressAttachment(f, outcome)
       IN  /\ Push(Attachment("image", << processedFile(f, blob) >>, << >>,
                              f.name, it.id, f.size, "addAttachment"))
           /\ last' = EventAfter("add", it.id, "committed", Resolved(blob))
    /\ Advance(p)
    /\ solo' = KeepSolo(p)
    /\ UNCHANGED << compressImages, nextId >>

\* Faulty variant: an error of the compressor ends the add without a push.
CompressThrow_Aborts(p) ==
    /\ pc[p] = "compress"
    /\ last' = EventAfter("add", Current(p).id, "compression-failed", Threw)
    /\ Advance(p)
    /\ solo' = KeepSolo(p)
    /\ UNCHANGED << attachments, compressImages, preview, nextId >>

\* compressAttachment rejects: the catch block keeps the original file.
CompressThrow(p) ==
    /\ pc[p] = "compress"
    /\ LET it == Current(p)
           f == it.file
       IN  /\ Push(Attachment("image", <<f>>, << >>, f.name,
                              it.id, f.size, "addAttachment"))
           /\ last' = EventAfter("add", it.id, "committed", Threw)
    /\ Advance(p)
    /\ solo' = KeepSolo(p)
    /\ UNCHANGED << compressImages, nextId >>

\* One turn of the file loop up to the next await: the extension gate of
\* addAttachment('file', file), then fileTypeFromBlob.
FileHandlerStep(p) ==
    /\ pc[p] = "next"
    /\ kind[p] = "file"
    /\ solo' = KeepSolo(p)
    /\ UNCHANGED << attachments, compressImages, preview, nextId >>
    /\ IF idx[p] > Len(files[p])
       THEN /\ Finish(p)
            /\ last' = Event("batch", Len(files[p]), "done")
       ELSE LET it == Current(p)
                extension == getFileExtension(it.file.name)
            IN  IF ~isSupportedTextFile(extension)
                THEN /\ Advance(p)
                     /\ last' = Event("add", it.id, "unsupported-extension")
                ELSE /\ Await(p, "sniff")
                     /\ last' = Event("add", it.id, "sniffing")

\* Faulty variant: a rejection ends the handler's loop.
SniffReturn_RejectionEndsBatch(p) ==
    /\ pc[p] = "sniff"
    /\ LET it == Current(p)
           f == it.file
           why == fileRejection(f, fileTypeFromBlob(f), attachments)
       IN  IF why # "none"
           THEN /\ last' = Event("add", it.id, why)
                /\ Finish(p)
                /\ UNCHANGED << attachments, preview >>
           ELSE /\ Push(Attachment("file", <<f>>, << >>, f.name,
                                   it.id, f.size, "addAttachment"))
                /\ last' = Event("add", it.id, "committed")
                /\ Advance(p)
    /\ solo' = KeepSolo(p)
    /\ UNCHANGED << compressImages, nextId >>

\* fileTypeFromBlob resolves: the remaining gates, then the push.
SniffReturn(p) ==
    /\ pc[p] = "sniff"
    /\ LET it == Current(p)
           f == it.file
           why == fileRejection(f, fileTypeFromBlob(f), attachments)
       IN  IF why # "none"
           THEN /\ last' = Event("add", it.id, why)
                /\ UNCHANGED << attachments, preview >>
           ELSE /\ Push(Attachment("file", <<f>>, << >>, f.name,
                                   it.id, f.size, "addAttachment"))
                /\ last' = Event("add", it.id, "committed")
    /\ Advance(p)
    /\ solo' = KeepSolo(p)
    /\ UNCHANGED << compressImages, nextId >>

\* fileTypeFromBlob rejects (the blob cannot be read): addAttachment and
\* the handler's loop end with the exception.
SniffThrow(p) ==
    /\ pc[p] = "sniff"
    /\ Finish(p)
    /\ last' = Event("add", Current(p).id, "threw")
    /\ solo' = KeepSolo(p)
    /\ UNCHANGED << attachments, compressImages, preview, nextId >>

(***************************************************************************)
(* Links, removal, clear, the compression toggle.                          *)
(***************************************************************************)
\* addYoutubeLink(url) / addWikipediaLink(url): push and re-render.
addLink(type, url, via) ==
    /\ Push(Attachment(type, << >>, <<url>>, << >>, nextId, 0, via))
    /\ nextId' = nextId + 1
    /\ last' = Event("link", nextId, "committed")

\* The prompt answers null (<<>>) or a string (<<url>>); '' is falsy too.
Truthy(answer) == answer # << >> /\ answer[1] # << >>

\* Faulty variant: any non-empty answer passes.
youtubeUrlValid_AnyUrl(url) == url # << >>

\* url.includes('youtube.com') || url.includes('youtu.be')
youtubeUrlValid(url) == includes(url, "youtube.com") \/ includes(url, "youtu.be")

\* url.includes('wikipedia.org')
wikipediaUrlValid(url) == includes(url, "wikipedia.org")

linkRejected(answer) ==
    /\ nextId' = nextId + 1
    /\ last' = Event("link", nextId, IF Truthy(answer) THEN "invalid-link" ELSE "cancelled")
    /\ UNCHANGED << attachments, preview >>

showYoutubeModal(answer, maxId) ==
    /\ Quiescent
    /\ nextId <= maxId
    /\ IF Truthy(answer) /\ youtubeUrlValid(answer[1])
       THEN addLink("youtube", answer[1], "modal")
       ELSE linkRejected(answer)
    /\ solo' = 0
    /\ UNCHANGED << compressImages, pc, kind, files, idx >>

showWikipediaModal(answer, maxId) ==
    /\ Quiescent
    /\ nextId <= maxId
    /\ IF Truthy(answer) /\ wikipediaUrlValid(answer[1])
       THEN addLink("wikipedia", answer[1], "modal")
       ELSE linkRejected(answer)
    /\ solo' = 0
    /\ UNCHANGED << compressImages, pc, kind, files, idx >>

\* A caller other than the modals uses the exported adders directly.
addYoutubeLink(url, maxId) ==
    /\ Quiescent
    /\ nextId <= maxId
    /\ addLink("youtube", url, "direct")
    /\ solo' = 0
    /\ UNCHANGED << compressImages, pc, kind, files, idx >>

addWikipediaLink(url, maxId) ==
    /\ Quiescent
    /\ nextId <= maxId
    /\ addLink("wikipedia", url, "direct")
    /\ solo' = 0
    /\ UNCHANGED << compressImages, pc, kind, files, idx >>

\* this.attachments.splice(index, 1); this.updateAttachmentPreview()
removeAttachment(index) ==
    /\ Quiescent
    /\ attachments' = splice(attachments, index, 1)
    /\ preview' = Rendered(attachments')
    /\ last' = Event("remove", index, "")
    /\ solo' = 0
    /\ UNCHANGED << compressImages, pc, kind, files, idx, nextId >>

\* The click listener of rendered button b:
\* parseInt(target.dataset.attachmentIndex || '0', 10), then removeAttachment.
RemoveClick(b) ==
    /\ b \in 1..Len(preview)
    /\ removeAttachment(preview[b].index)

\* The positions a direct caller of removeAttachment may pass, around the
\* current length on both sides.
Positions == (0 - Len(attachments) - 1) .. (Len(attachments) + 1)

\* Faulty variant: only the last record is dropped.
clearAttachments_DropsLast ==
    /\ Quiescent
    /\ attachments' = SubSeq(attachments, 1, Len(attachments) - 1)
    /\ preview' = Rendered(attachments')
    /\ last' = Event("clear", 0, "")
    /\ solo' = 0
    /\ UNCHANGED << compressImages, pc, kind, files, idx, nextId >>

\* Faulty variant: the clear also drops the adds that are suspended.
clearAttachments_CancelsAdds ==
    /\ Quiescent
    /\ attachments' = << >>
    /\ preview' = Rendered(attachments')
    /\ last' = Event("clear", 0, "")
    /\ solo' = 0
    /\ pc' = [p \in Handlers |-> "idle"]
    /\ kind' = [p \in Handlers |-> "image"]
    /\ files' = [p \in Handlers |-> << >>]
    /\ idx' = [p \in Handlers |-> 0]
    /\ UNCHANGED << compressImages, nextId >>

clearAttachments ==
    /\ Quiescent
    /\ attachments' = << >>
    /\ preview' = Rendered(attachments')
    /\ last' = Event("clear", 0, "")
    /\ solo' = 0
    /\ UNCHANGED << compressImages, pc, kind, files, idx, nextId >>

\* The change listener of #compressAttachedImagesToggle.
ToggleCompress ==
    /\ Quiescent
    /\ compressImages' = ~compressImages
    /\ last' = Event("toggle", 0, "")
    /\ solo' = 0
    /\ UNCHANGED << attachments, preview, pc, kind, files, idx, nextId >>

(***************************************************************************)
(* Environments: the candidates and links the user submits.                *)
(***************************************************************************)
Png(size) == NewFile(<<"photo", "png">>, <<"image", "png">>, size, "png")

Bmp == NewFile(<<"scan", "bmp">>, <<"image", "bmp">>, MiB, "raw")

Txt(size) == NewFile(<<"notes", "txt">>, <<"text", "plain">>, size, "text")

\* README.TXT, no declared type.
UpperTxt == NewFile(<<"README", "TXT">>, << >>, MiB, "text")

\* PNG bytes under a .txt name.
PngNamedTxt == NewFile(<<"photo", "txt">>, <<"text", "plain">>, MiB, "png")

\* Bytes without a signature that are not UTF-8, under a .txt name.
RawNamedTxt == NewFile(<<"dump", "txt">>, << >>, MiB, "raw")

XmlDoc == NewFile(<<"feed", "xml">>, <<"text", "xml">>, MiB, "xml")

Exe == NewFile(<<"setup", "EXE">>, <<"application", "x-msdownload">>, MiB, "raw")

Makefile == NewFile(<<"Makefile">>, << >>, MiB, "text")

\* a.json that the browser declares as application/pdf.
JsonDeclaredPdf == NewFile(<<"a", "json">>, <<"application", "pdf">>, MiB, "text")

Json == NewFile(<<"a", "json">>, <<"application", "json">>, MiB, "text")

YoutuBe == <<"https://", "youtu.be", "/abc123">>

YoutubeCom == <<"https://www.", "youtube.com", "/watch?v=abc123">>

Vimeo == <<"https://", "vimeo.com", "/abc123">>

Wikipedia == <<"https://en.", "wikipedia.org", "/wiki/TLA">>

Urls == {YoutuBe, YoutubeCom, Vimeo, Wikipedia, << >>}

PromptAnswers == {<< >>} \cup {<<u>> : u \in Urls}

\* The mixed environment: images, files and links side by side.
MixedImages == { <<Png(MiB)>> }

MixedFiles == { <<Txt(3 * MiB)>> }

MixedUrls == { YoutuBe }

Next ==
    \/ \E p \in Handlers, b \in MixedImages : Submit(p, "image", b, MaxId)
    \/ \E p \in Handlers, b \in MixedFiles : Submit(p, "file", b, MaxId)
    \/ \E p \in Handlers : ImageHandlerStep(p)
    \/ \E p \in Handlers, o \in CompressOutcomes : CompressReturn(p, o)
    \/ \E p \in Handlers : CompressThrow(p)
    \/ \E p \in Handlers : FileHandlerStep(p)
    \/ \E p \in Handlers : SniffReturn(p)
    \/ \E p \in Handlers : SniffThrow(p)
    \/ \E u \in MixedUrls : addYoutubeLink(u, MaxId)
    \/ \E i \in Positions : removeAttachment(i)
    \/ \E b \in 1..Len(preview) : RemoveClick(b)
    \/ clearAttachments

Spec == Init /\ [][Next]_vars

\* The intake environment: every kind of candidate, one per selection.
IntakeImages ==
    { <<Png(MiB)>>, <<Png(MAX_SIZE_BYTES)>>, <<Png(MAX_SIZE_BYTES + 1)>>, <<Bmp>> }

IntakeFiles ==
    { <<Txt(3 * MiB)>>, <<Txt(MAX_FILE_SIZE_BYTES)>>, <<Txt(MAX_FILE_SIZE_BYTES + 1)>>,
      <<UpperTxt>>, <<PngNamedTxt>>, <<RawNamedTxt>>, <<XmlDoc>>, <<Exe>>,
      <<Makefile>>, <<JsonDeclaredPdf>>, <<Json>> }

NextIntake ==
    \/ \E p \in Handlers, b \in IntakeImages : Submit(p, "image", b, MaxIdIntake)
    \/ \E p \in Handlers, b \in IntakeFiles : Submit(p, "file", b, MaxIdIntake)
    \/ \E p \in Handlers : ImageHandlerStep(p)
    \/ \E p \in Handlers, o \in CompressOutcomes : CompressReturn(p, o)
    \/ \E p \in Handlers : CompressThrow(p)
    \/ \E p \in Handlers : FileHandlerStep(p)
    \/ \E p \in Handlers : SniffReturn(p)
    \/ \E p \in Handlers : SniffThrow(p)
    \/ \E b \in 1..Len(preview) : RemoveClick(b)
    \/ ToggleCompress

SpecIntake == Init /\ [][NextIntake]_vars

\* The link environment.
NextLinks ==
    \/ \E a \in PromptAnswers : showYoutubeModal(a, MaxIdLinks)
    \/ \E a \in PromptAnswers : showWikipediaModal(a, MaxIdLinks)
    \/ \E u \in Urls : addYoutubeLink(u, MaxIdLinks)
    \/ \E u \in Urls : addWikipediaLink(u, MaxIdLinks)
    \/ \E b \in 1..Len(preview) : RemoveClick(b)
    \/ clearAttachments

SpecLinks == Init /\ [][NextLinks]_vars

\* The image environment: a selection of ten valid images on the fresh
\* page, then selections of one; a compressor that does not manage to
\* shrink them; removals click the first button.
TenImages == [i \in 1..10 |-> Png(MiB)]

ImageSelections == IF nextId = 1 THEN { TenImages } ELSE { <<Png(MiB)>> }

NextImages ==
    \/ \E p \in Handlers, b \in ImageSelections : Submit(p, "image", b, MaxIdImages)
    \/ \E p \in Handlers : ImageHandlerStep(p)
    \/ \E p \in Handlers : CompressReturn(p, "larger")
    \/ \E p \in Handlers : CompressThrow(p)
    \/ RemoveClick(1)
    \/ clearAttachments

SpecImages == Init /\ [][NextImages]_vars

\* The file environment: a batch of five 3 MiB files or of two 7 MiB files
\* on the fresh page, then single 3 MiB files and single 9 MiB images.
FiveFiles == [i \in 1..5 |-> Txt(3 * MiB)]

TwoFiles == [i \in 1..2 |-> Txt(7 * MiB)]

FileSelections == IF nextId = 1 THEN { FiveFiles, TwoFiles } ELSE { <<Txt(3 * MiB)>> }

LargeImages == IF nextId = 1 THEN { } ELSE { <<Png(9 * MiB)>> }

NextFiles ==
    \/ \E p \in Handlers, b \in FileSelections : Submit(p, "file", b, MaxIdFiles)
    \/ \E p \in Handlers, b \in LargeImages : Submit(p, "image", b, MaxIdFiles)
    \/ \E p \in Handlers : FileHandlerStep(p)
    \/ \E p \in Handlers : SniffReturn(p)
    \/ \E p \in Handlers : SniffThrow(p)
    \/ \E p \in Handlers : ImageHandlerStep(p)
    \/ \E p \in Handlers : CompressThrow(p)
    \/ \E b \in 1..Len(preview) : RemoveClick(b)
    \/ clearAttachments

SpecFiles == Init /\ [][NextFiles]_vars

\* The batch environment: on the fresh page one selection of ten files or
\* of ten images, several of them failing more than one gate; afterwards
\* selections of one, the two link prompts, removals of the first button
\* and clears; a compressor that does not manage to shrink the images.
BigBmp == NewFile(<<"scan", "bmp">>, <<"image", "bmp">>, MAX_SIZE_BYTES + 1, "raw")

\* PNG bytes under a .txt name, declared image/png, above the ceiling.
BigPngNamedTxt ==
    NewFile(<<"photo", "txt">>, <<"image", "png">>, MAX_FILE_SIZE_BYTES + 1, "png")

BigJsonDeclaredPdf ==
    NewFile(<<"a", "json">>, <<"application", "pdf">>, MAX_FILE_SIZE_BYTES + 1, "text")

FileBatch ==
    << Exe, Makefile, BigPngNamedTxt, XmlDoc, BigJsonDeclaredPdf,
       Txt(MAX_FILE_SIZE_BYTES + 1), Txt(3 * MiB), Txt(8 * MiB), UpperTxt, Json >>

ImageBatch ==
    << BigBmp >> \o [i \in 1..8 |-> Png(MiB)] \o << Png(MAX_SIZE_BYTES + 1) >>

BatchFiles == IF nextId = 1 THEN { FileBatch } ELSE { <<Txt(3 * MiB)>> }

BatchImages == IF nextId = 1 THEN { ImageBatch } ELSE { <<Png(MiB)>> }

BatchAnswers ==
    IF nextId = 1 THEN { } ELSE { << >>, <<Vimeo>>, <<YoutuBe>>, <<Wikipedia>> }

NextBatches ==
    \/ \E p \in Handlers, b \in BatchFiles : Submit(p, "file", b, MaxIdBatches)
    \/ \E p \in Handlers, b \in BatchImages : Submit(p, "image", b, MaxIdBatches)
    \/ \E p \in Handlers : FileHandlerStep(p)
    \/ \E p \in Handlers : SniffReturn(p)
    \/ \E p \in Handlers : SniffThrow(p)
    \/ \E p \in Handlers : ImageHandlerStep(p)
    \/ \E p \in Handlers : CompressReturn(p, "larger")
    \/ \E p \in Handlers : CompressThrow(p)
    \/ \E a \in BatchAnswers : showYoutubeModal(a, MaxIdBatches)
    \/ \E a \in BatchAnswers : showWikipediaModal(a, MaxIdBatches)
    \/ RemoveClick(1)
    \/ clearAttachments

SpecBatches == Init /\ [][NextBatches]_vars

\* The environment of the progress properties: on the fresh page a selection
\* of two images or of three files, then selections of one, with removals
\* of the first record and clears.  Continuations that are ready run (the microtask queue is
\* drained), and every call of fileTypeFromBlob and of compressAttachment
\* that is awaited eventually resolves or rejects.
LiveImages ==
    IF nextId = 1 THEN { <<Png(MiB), Png(MiB)>> } ELSE { <<Png(MiB)>> }

LiveFiles ==
    IF nextId = 1 THEN { <<Txt(3 * MiB), Exe, Txt(8 * MiB)>> } ELSE { <<Txt(3 * MiB)>> }

NextLive ==
    \/ \E p \in Handlers, b \in LiveImages : Submit(p, "image", b, MaxIdLive)
    \/ \E p \in Handlers, b \in LiveFiles : Submit(p, "file", b, MaxIdLive)
    \/ \E p \in Handlers : ImageHandlerStep(p)
    \/ \E p \in Handlers : CompressReturn(p, "smaller")
    \/ \E p \in Handlers : CompressThrow(p)
    \/ \E p \in Handlers : FileHandlerStep(p)
    \/ \E p \in Handlers : SniffReturn(p)
    \/ \E p \in Handlers : SniffThrow(p)
    \/ RemoveClick(1)
    \/ clearAttachments

CollaboratorsAnswer ==
    \A p \in Handlers :
        /\ WF_vars(ImageHandlerStep(p))
        /\ WF_vars(FileHandlerStep(p))
        /\ WF_vars(CompressReturn(p, "smaller") \/ CompressThrow(p))
        /\ WF_vars(SniffReturn(p) \/ SniffThrow(p))

SpecLive == Init /\ [][NextLive]_vars /\ CollaboratorsAnswer

\* The same environment with a compressor that may never answer: only the
\* handlers' continuations and the sniffer are assumed to make progress.
SnifferAnswers ==
    \A p \in Handlers :
        /\ WF_vars(ImageHandlerStep(p))
        /\ WF_vars(FileHandlerStep(p))
        /\ WF_vars(SniffReturn(p) \/ SniffThrow(p))

SpecHang == Init /\ [][NextLive]_vars /\ SnifferAnswers

\* The toggle environment: on the fresh page a selection of three images,
\* then selections of one; the compression toggle is switched at will and
\* the compressor answers with a smaller, an equal or a larger blob, or
\* throws.
ThreeImages == << Png(MiB), Png(2 * MiB), Png(MiB) >>

ToggleImages == IF nextId = 1 THEN { ThreeImages } ELSE { <<Png(MiB)>> }

NextToggle ==
    \/ \E p \in Handlers, b \in ToggleImages : Submit(p, "image", b, MaxIdToggle)
    \/ \E p \in Handlers : ImageHandlerStep(p)
    \/ \E p \in Handlers, o \in CompressOutcomes : CompressReturn(p, o)
    \/ \E p \in Handlers : CompressThrow(p)
    \/ ToggleCompress
    \/ RemoveClick(1)

SpecToggle == Init /\ [][NextToggle]_vars

(***************************************************************************)
(* Vocabulary of the properties.                                           *)
(***************************************************************************)
Ids(atts) == [i \in 1..Len(atts) |-> atts[i].id]

OfType(atts, type) == SelectSeq(atts, LAMBDA a : a.type = type)

RECURSIVE SumOrig(_)
SumOrig(s) == IF s = << >> THEN 0 ELSE Head(s).orig + SumOrig(Tail(s))

\* The sequence s without its element at 0-based position i.
DeleteAt(s, i) ==
    [j \in 1..(Len(s) - 1) |-> IF j < i + 1 THEN s[j] ELSE s[j + 1]]

\* t is s with some elements deleted and the others in their order.
RECURSIVE IsSubsequence(_, _)
IsSubsequence(t, s) ==
    IF t = << >> THEN TRUE
    ELSE IF s = << >> THEN FALSE
    ELSE IF Head(t) = Head(s) THEN IsSubsequence(Tail(t), Tail(s))
    ELSE IsSubsequence(t, Tail(s))

\* The list grew by exactly one record, at its end.
AppendedOne == /\ Len(attachments') = Len(attachments) + 1
               /\ SubSeq(attachments', 1, Len(attachments)) = attachments

\* The candidate the last add event was about.
LastFile ==
    LET p == CHOOSE q \in Handlers :
                 \E i \in 1..Len(files[q]) : files[q][i].id = last.arg
        i == CHOOSE j \in 1..Len(files[p]) : files[p][j].id = last.arg
    IN  files[p][i].file

(***************************************************************************)
(* C1: the list never holds more than 8 records of type 'image', also      *)
(* with several image adds suspended in compression at the same time.      *)
(***************************************************************************)
C1_AtMostEightImages == Len(OfType(attachments, "image")) <= 8

(***************************************************************************)
(* C2: the original sizes of the 'file' attachments in the list never add  *)
(* up to more than 10 MiB, under every interleaving of file adds           *)
(* suspended at sniffing, removals and clears.                             *)
(***************************************************************************)
C2_TotalFileSizeBounded ==
    SumOrig(OfType(attachments, "file")) <= 10 * 1024 * 1024

\* A file was turned away for the aggregate ceiling while another add was
\* suspended at sniffing and the list was full to the byte.
C2_Witness ==
    /\ last.op = "add" /\ last.res = "total-size"
    /\ \E q \in Handlers : pc[q] = "sniff"
    /\ SumOrig(OfType(attachments, "file")) = 10 * 1024 * 1024

C4_RemoveAt ==
    [][ last'.op = "remove" =>
          IF 0 <= last'.arg /\ last'.arg < Len(attachments)
          THEN attachments' = DeleteAt(attachments, last'.arg)
          ELSE attachments' = attachments ]_vars

(***************************************************************************)
(* C5: every 'file' attachment in the list has an extension of the         *)
(* allow-list and content that decodes as UTF-8.                           *)
(***************************************************************************)
C5_NoBinaryInStore ==
    \A i \in 1..Len(attachments) :
        attachments[i].type = "file" =>
            LET f == attachments[i].file[1]
            IN  /\ getFileExtension(f.name) \in SUPPORTED_TEXT_EXTENSIONS
                /\ DecodesAsUtf8(f)

(***************************************************************************)
(* C6: when content sniffing returns a concrete format for a file          *)
(* candidate, the add is rejected and the list is left as it was,          *)
(* whatever the extension, the declared type and the size.                 *)
(***************************************************************************)
C6_DetectedFormatRejected ==
    [][ \A p \in Handlers :
          ( /\ pc[p] = "sniff"
            /\ pc'[p] = "next"
            /\ fileTypeFromBlob(Current(p).file) # << >> )
          => /\ attachments' = attachments
             /\ last' = Event("add", Current(p).id, "binary-content") ]_vars

\* A file named .txt that holds PNG bytes has just been rejected.
C6_Witness ==
    /\ last.op = "add" /\ last.res = "binary-content"
    /\ LastFile = PngNamedTxt

(***************************************************************************)
(* C7 as claimed: every 'youtube' attachment in the list has a URL         *)
(* containing "youtube.com" or "youtu.be" and every 'wikipedia' attachment *)
(* one containing "wikipedia.org", whichever operation put it there.       *)
(***************************************************************************)
UrlFits(a) ==
    /\ a.type = "youtube" =>
          includes(a.url[1], "youtube.com") \/ includes(a.url[1], "youtu.be")
    /\ a.type = "wikipedia" => includes(a.url[1], "wikipedia.org")

C7_LinksValid ==
    \A i \in 1..Len(attachments) : UrlFits(attachments[i])

(***************************************************************************)
(* C7 as amended: every link attachment that showYoutubeModal or           *)
(* showWikipediaModal put in the list has a URL that fits its type, and a  *)
(* modal submission whose URL does not fit is rejected and leaves the list *)
(* unchanged; addYoutubeLink and addWikipediaLink append the URL they are  *)
(* given without validating it.                                            *)
(***************************************************************************)
C7_ModalLinksValid ==
    [][ /\ \A i \in 1..Len(attachments') :
              attachments'[i].via = "modal" => UrlFits(attachments'[i])
        /\ last'.op = "link" /\ last'.res = "invalid-link" =>
              attachments' = attachments ]_vars

\* A modal submission has just been rejected while the list holds a link a
\* modal accepted.
C7_Witness ==
    /\ last.op = "link" /\ last.res = "invalid-link"
    /\ \E i \in 1..Len(attachments) : attachments[i].via = "modal"

(***************************************************************************)
(* C8: an image of an allowed format and of at most 10 MiB is committed    *)
(* if and only if the list holds fewer than 8 images when it is checked.   *)
(* A 9th image is rejected with the list left alone, and a selection of    *)
(* ten valid images made on an empty list, running undisturbed, commits    *)
(* its first eight in input order and rejects the last two.                *)
(***************************************************************************)
ValidImage(f) ==
    /\ f.type \in { <<"image", "jpeg">>, <<"image", "png">>,
                    <<"image", "webp">>, <<"image", "gif">> }
    /\ f.size <= 10 * 1024 * 1024

CommittedAs(type, id) ==
    /\ AppendedOne
    /\ attachments'[Len(attachments')].id = id
    /\ attachments'[Len(attachments')].type = type

C8_ImageCeilingPerCandidate ==
    [][ /\ \A p \in Handlers :
              ( /\ pc[p] = "next" /\ kind[p] = "image"
                /\ idx[p] <= Len(files[p])
                /\ (pc'[p] # pc[p] \/ idx'[p] # idx[p])
                /\ ValidImage(Current(p).file) )
              => IF Len(OfType(attachments, "image")) < 8
                 THEN \/ pc'[p] = "compress" /\ attachments' = attachments
                      \/ CommittedAs("image", Current(p).id)
                 ELSE /\ attachments' = attachments
                      /\ pc'[p] = "next"
                      /\ last' = Event("add", Current(p).id, "image-limit")
        /\ \A p \in Handlers :
              pc[p] = "compress" /\ pc'[p] # "compress"
              => CommittedAs("image", Current(p).id)
        /\ \A p \in Handlers :
              ( /\ solo' = p /\ pc[p] = "next" /\ pc'[p] = "idle"
                /\ kind[p] = "image"
                /\ Len(files[p]) = 10
                /\ \A i \in 1..10 : ValidImage(files[p][i].file) )
              => Ids(attachments') = [i \in 1..8 |-> files[p][i].id] ]_vars

\* A selection of ten images has run to its end alone from an empty list, with
\* compression enabled, and eight images are in the list.
C8_Witness ==
    /\ solo # 0
    /\ last = Event("batch", 10, "done")
    /\ Len(OfType(attachments, "image")) = 8
    /\ compressImages

(***************************************************************************)
(* C9: a file that passes classification and the per-item ceiling is       *)
(* committed if and only if the sizes of the 'file' attachments in the     *)
(* list at that moment plus its own size do not exceed 10 MiB.  Five files *)
(* of 3 MiB selected together on an empty list commit the first three; of  *)
(* two files of 7 MiB the first commits and the second is rejected.        *)
(***************************************************************************)
PassesClassification(f) ==
    /\ f.bytes \in {"text", "raw"}
    /\ \/ f.type = << >>
       \/ f.type[1] = "text"
       \/ f.type \in SAFE_TEXT_MIME_TYPES
    /\ f.size <= 10 * 1024 * 1024

AllOfSize(batch, n, size) ==
    /\ Len(batch) = n
    /\ \A i \in 1..n : PassesClassification(batch[i].file) /\ batch[i].file.size = size

C9_AggregateCeilingPerCandidate ==
    [][ /\ \A p \in Handlers :
              ( /\ pc[p] = "sniff" /\ pc'[p] = "next"
                /\ PassesClassification(Current(p).file) )
              => IF SumOrig(OfType(attachments, "file")) + Current(p).file.size
                        <= 10 * 1024 * 1024
                 THEN CommittedAs("file", Current(p).id)
                 ELSE /\ attachments' = attachments
                      /\ last' = Event("add", Current(p).id, "total-size")
        /\ \A p \in Handlers :
              ( /\ solo' = p /\ pc[p] = "next" /\ pc'[p] = "idle"
                /\ kind[p] = "file"
                /\ AllOfSize(files[p], 5, 3 * 1024 * 1024) )
              => Ids(attachments') = [i \in 1..3 |-> files[p][i].id]
        /\ \A p \in Handlers :
              ( /\ solo' = p /\ pc[p] = "next" /\ pc'[p] = "idle"
                /\ kind[p] = "file"
                /\ AllOfSize(files[p], 2, 7 * 1024 * 1024) )
              => Ids(attachments') = << files[p][1].id >> ]_vars

\* A selection of five 3 MiB files has run alone from an empty list and
\* left three of them in the list.
C9_Witness ==
    /\ solo # 0
    /\ last = Event("batch", 5, "done")
    /\ Len(OfType(attachments, "file")) = 3

(***************************************************************************)
(* C10: no image and no file whose original size exceeds 10 MiB is ever    *)
(* committed or handed to the compressor, with compression enabled or      *)
(* not; a candidate of exactly 10 MiB is not rejected for its size.        *)
(***************************************************************************)
C10_PerItemCeiling ==
    /\ \A i \in 1..Len(attachments) :
          attachments[i].type \in {"image", "file"} =>
              attachments[i].orig <= 10 * 1024 * 1024
    /\ \A p \in Handlers :
          pc[p] = "compress" => Current(p).file.size <= 10 * 1024 * 1024
    /\ last.op = "add" /\ last.res \in {"committed", "compressing"} =>
          LastFile.size <= 10 * 1024 * 1024
    /\ last.op = "add" /\ last.res = "too-large" =>
          LastFile.size > 10 * 1024 * 1024

\* An image of more than 10 MiB has just been rejected for its size with
\* compression enabled, and a candidate of exactly 10 MiB is in the list.
C10_Witness ==
    /\ last.op = "add" /\ last.res = "too-large"
    /\ LastFile.type = <<"image", "png">>
    /\ compressImages
    /\ \E i \in 1..Len(attachments) : attachments[i].orig = 10 * 1024 * 1024

(***************************************************************************)
(* C11: the stored size of a committed image never exceeds the size of the *)
(* candidate as submitted, and when compressAttachment resolves with a     *)
(* blob that is not strictly smaller than the candidate (equal or larger)  *)
(* the record that is pushed holds the candidate's own file, bytes, type   *)
(* and size untouched.                                                     *)
(***************************************************************************)
C11_CompressionNeverGrows ==
    [][ /\ \A i \in 1..Len(attachments') :
              attachments'[i].type = "image" =>
                  attachments'[i].file[1].size <= attachments'[i].orig
        /\ \A p \in Handlers :
              ( /\ pc[p] = "compress" /\ pc'[p] # "compress"
                /\ last'.compressor.res = "resolved"
                /\ last'.compressor.size >= Current(p).file.size )
              => /\ CommittedAs("image", Current(p).id)
                 /\ attachments'[Len(attachments')].file = << Current(p).file >> ]_vars

\* The compressor has just answered with a blob larger than the candidate,
\* the candidate's own file was stored, and the list also holds an image
\* whose stored bytes are smaller than the candidate was.
C11_Witness ==
    /\ last.op = "add" /\ last.res = "committed"
    /\ last.compressor.res = "resolved"
    /\ last.compressor.size > LastFile.size
    /\ attachments # << >>
    /\ attachments[Len(attachments)].file = << LastFile >>
    /\ \E i \in 1..Len(attachments) :
           /\ attachments[i].type = "image"
           /\ attachments[i].file[1].size < attachments[i].orig

(***************************************************************************)
(* C12: when compressAttachment throws for an image that passed the        *)
(* format, size and count checks, the add still commits: exactly one       *)
(* record is appended, holding the candidate's own file (bytes and type    *)
(* as submitted), no rejection is reported for it, and the handler goes on *)
(* with its next file.                                                     *)
(***************************************************************************)
C12_CompressorFailureStillCommits ==
    [][ \A p \in Handlers :
          ( /\ pc[p] = "compress" /\ pc'[p] # "compress"
            /\ last'.compressor.res = "threw" )
          => /\ CommittedAs("image", Current(p).id)
             /\ attachments'[Len(attachments')].file = << Current(p).file >>
             /\ \A i \in 1..Len(attachments) : attachments[i].id # Current(p).id
             /\ last'.op = "add" /\ last'.arg = Current(p).id
             /\ last'.res = "committed"
             /\ pc'[p] = "next" /\ idx'[p] = idx[p] + 1 ]_vars

\* The compressor has just thrown for a PNG of exactly 10 MiB and the PNG is
\* the last record of the list, as it was submitted.
C12_Witness ==
    /\ last.op = "add" /\ last.res = "committed"
    /\ last.compressor.res = "threw"
    /\ LastFile = Png(10 * 1024 * 1024)
    /\ attachments # << >>
    /\ attachments[Len(attachments)].file = << LastFile >>
    /\ attachments[Len(attachments)].id = last.arg

(***************************************************************************)
(* C13: an add that ends in a rejection (unsupported format or extension,  *)
(* binary content or MIME type, per-item or aggregate size, image limit,   *)
(* invalid link) leaves the list and the preview as they were, in the      *)
(* rejecting step and in the add's earlier step up to the sniffing; the    *)
(* handler then goes on with the next file of the same selection, which is *)
(* accepted or rejected on its own merits: of the ten files and of the ten *)
(* images selected together exactly those that pass every gate are in the  *)
(* list when the selection has run undisturbed from an empty list.         *)
(***************************************************************************)
RejectionReasons ==
    { "unsupported-format", "unsupported-extension", "binary-content",
      "binary-mime", "too-large", "total-size", "image-limit", "invalid-link" }

BatchOf(p) == [i \in 1..Len(files[p]) |-> files[p][i].file]

C13_RejectionChangesNothing ==
    [][ /\ ( /\ last'.op \in {"add", "link"}
             /\ last'.res \in RejectionReasons \cup {"sniffing"} )
           => attachments' = attachments /\ preview' = preview
        /\ \A p \in Handlers :
              ( /\ idx[p] \in 1..Len(files[p])
                /\ last'.op = "add"
                /\ last'.arg = Current(p).id
                /\ last'.res \in RejectionReasons )
              => /\ pc'[p] = "next"
                 /\ idx'[p] = idx[p] + 1
                 /\ files'[p] = files[p]
                 /\ kind'[p] = kind[p]
        /\ \A p \in Handlers :
              ( /\ solo' = p /\ pc[p] = "next" /\ pc'[p] = "idle"
                /\ kind[p] = "file" /\ BatchOf(p) = FileBatch )
              => Ids(attachments') =
                     << files[p][7].id, files[p][9].id, files[p][10].id >>
        /\ \A p \in Handlers :
              ( /\ solo' = p /\ pc[p] = "next" /\ pc'[p] = "idle"
                /\ kind[p] = "image" /\ BatchOf(p) = ImageBatch )
              => Ids(attachments') = [i \in 1..8 |-> files[p][i + 1].id] ]_vars

\* The selection of ten files has run to its end alone from an empty list:
\* seven were rejected and the three that pass every gate are in the list.
C13_Witness ==
    /\ solo # 0
    /\ last = Event("batch", 10, "done")
    /\ Len(attachments) = 3
    /\ \A i \in 1..3 : attachments[i].type = "file"

(***************************************************************************)
(* C14: at most one add pipeline is in flight: while one addAttachment     *)
(* call is suspended at sniffing or compression, no other change handler   *)
(* has started or is running an addAttachment call of its own.             *)
(***************************************************************************)
C14_OnePipelineInFlight ==
    \A p, q \in Handlers :
        p # q /\ pc[p] \in {"sniff", "compress"} => pc[q] = "idle"

(***************************************************************************)
(* C15: the files of one selection are processed one at a time in input    *)
(* order.  Every step of an add is a step of the file the loop is at; the  *)
(* loop moves on by exactly one file, and only in the step in which that   *)
(* file is committed (its record is then in the list), rejected or         *)
(* skipped; so no record of a later file of the selection is in the list   *)
(* while an earlier one is still being processed, and the records of one   *)
(* selection are in the list in input order.                               *)
(***************************************************************************)
TerminalResults == RejectionReasons \cup {"committed", "skipped"}

PositionIn(p, id) == CHOOSE j \in 1..Len(files[p]) : files[p][j].id = id

FromBatch(p, a) == \E j \in 1..Len(files[p]) : files[p][j].id = a.id

C15_OneAtATimeInOrder ==
    [][ /\ \A p \in Handlers : \A j \in 1..Len(files[p]) :
              last'.op = "add" /\ last'.arg = files[p][j].id => j = idx[p]
        /\ \A p \in Handlers :
              pc[p] # "idle" /\ pc'[p] # "idle" /\ idx'[p] # idx[p]
              => /\ idx'[p] = idx[p] + 1
                 /\ idx[p] \in 1..Len(files[p])
                 /\ last'.op = "add" /\ last'.arg = Current(p).id
                 /\ last'.res \in TerminalResults
                 /\ last'.res = "committed" => CommittedAs(kind[p], Current(p).id)
        /\ \A p \in Handlers :
              pc[p] # "idle" /\ pc'[p] # "idle" /\ idx'[p] = idx[p]
              /\ pc'[p] # pc[p]
              => last'.res \notin TerminalResults
        /\ \A p \in Handlers : \A i \in 1..Len(attachments') :
              FromBatch(p, attachments'[i]) /\ files'[p] = files[p]
              => /\ PositionIn(p, attachments'[i].id) < idx'[p]
                 /\ \A k \in 1..(i - 1) :
                       FromBatch(p, attachments'[k])
                       => attachments'[k].id < attachments'[i].id ]_vars

\* The ninth file of the selection of ten is at its sniffing with the
\* seventh already in the list and the eighth rejected.
C15_Witness ==
    \E p \in Handlers :
        /\ kind[p] = "file" /\ Len(files[p]) = 10
        /\ pc[p] = "sniff" /\ idx[p] = 9
        /\ \E i \in 1..Len(attachments) : attachments[i].id = files[p][7].id
        /\ \A i \in 1..Len(attachments) : attachments[i].id # files[p][8].id

(***************************************************************************)
(* C16: clearAttachments can be called whenever the event loop is free,    *)
(* and it leaves the list (and the preview) empty whatever the list held,  *)
(* the empty list included: a second call leaves it empty.                 *)
(***************************************************************************)
C16_ClearEmpties ==
    [][ /\ last'.op = "clear" => attachments' = << >> /\ preview' = << >>
        /\ Quiescent => ENABLED clearAttachments ]_vars

\* The list is empty after a clear made while an image add is suspended in
\* compression and a file add at sniffing.
C16_Witness ==
    /\ last.op = "clear"
    /\ attachments = << >>
    /\ \E p, q \in Handlers : pc[p] = "compress" /\ pc[q] = "sniff"

(***************************************************************************)
(* C17: every candidate handed to addAttachment reaches one end: its add   *)
(* is eventually over, provided the sniffer and the compressor answer or   *)
(* throw; the step that ends it either appends exactly one record, the     *)
(* candidate's, or appends nothing; an add that is over never runs again;  *)
(* and a removal or a clear leaves every add that is in flight where it    *)
(* is.                                                                     *)
(***************************************************************************)
InFlight(p, id) ==
    /\ pc[p] # "idle"
    /\ idx[p] \in 1..Len(files[p])
    /\ Current(p).id = id

C17_EveryAddEnds ==
    /\ \A p \in Handlers : \A id \in 1..MaxIdLive :
          InFlight(p, id) ~> ~InFlight(p, id)
    /\ [][ /\ \A p \in Handlers : \A id \in 1..MaxIdLive :
                (InFlight(p, id) /\ ~InFlight(p, id)') =>
                    ( /\ last'.op = "add" /\ last'.arg = id
                      /\ \/ /\ last'.res = "committed"
                            /\ CommittedAs(kind[p], id)
                            /\ \A i \in 1..Len(attachments) :
                                  attachments[i].id # id
                         \/ /\ last'.res \in
                                  RejectionReasons \cup {"skipped", "threw"}
                            /\ attachments' = attachments )
           /\ \A p \in Handlers : \A id \in 1..MaxIdLive :
                (~InFlight(p, id) /\ InFlight(p, id)') =>
                    ( /\ \/ id >= nextId
                         \/ pc[p] # "idle" /\ idx'[p] = idx[p] + 1
                      /\ \A i \in 1..Len(attachments') :
                            attachments'[i].id # id )
           /\ (last'.op \in {"remove", "clear"}) =>
                    ( pc' = pc /\ idx' = idx /\ files' = files /\ kind' = kind )
          ]_vars

\* A clear has just emptied the list while an image add is suspended in
\* compression and a file add at sniffing: both adds are still in flight.
C17_Witness ==
    /\ last.op = "clear"
    /\ \E p, q \in Handlers :
           /\ pc[p] = "compress" /\ InFlight(p, Current(p).id)
           /\ pc[q] = "sniff" /\ InFlight(q, Current(q).id)

(***************************************************************************)
(* C18: the gates run in a fixed order and the first one that fails names  *)
(* the rejection.  File: extension (fileTypeFromBlob is not called when it *)
(* fails), detected content, declared MIME type, own size, total size.     *)
(* Image: format, own size, image count.  compressAttachment is called     *)
(* only for an image that passed all three, and an add that called it      *)
(* always commits.                                                         *)
(***************************************************************************)
DeclaredBinary(f) ==
    /\ f.type # << >>
    /\ f.type[1] # "text"
    /\ f.type \notin SAFE_TEXT_MIME_TYPES

FirstFailingFileGate(f, atts) ==
    IF f.bytes \in {"png", "xml"} THEN "binary-content"
    ELSE IF DeclaredBinary(f) THEN "binary-mime"
    ELSE IF f.size > 10 * 1024 * 1024 THEN "too-large"
    ELSE IF SumOrig(OfType(atts, "file")) + f.size > 10 * 1024 * 1024
         THEN "total-size"
    ELSE "committed"

FirstFailingImageGate(f, atts, enabled) ==
    IF f.type \notin { <<"image", "jpeg">>, <<"image", "png">>,
                       <<"image", "webp">>, <<"image", "gif">> }
    THEN "unsupported-format"
    ELSE IF f.size > 10 * 1024 * 1024 THEN "too-large"
    ELSE IF Len(OfType(atts, "image")) >= 8 THEN "image-limit"
    ELSE IF enabled THEN "compressing"
    ELSE "committed"

C18_FirstFailingGateDecides ==
    [][ \A p \in Handlers :
          /\ ( /\ pc[p] = "next" /\ kind[p] = "file"
               /\ idx[p] \in 1..Len(files[p])
               /\ (pc'[p] # pc[p] \/ idx'[p] # idx[p]) )
             => IF getFileExtension(Current(p).file.name)
                      \in SUPPORTED_TEXT_EXTENSIONS
                THEN pc'[p] = "sniff" /\ last'.res = "sniffing"
                ELSE /\ pc'[p] = "next"
                     /\ last' = Event("add", Current(p).id, "unsupported-extension")
          /\ ( pc[p] = "sniff" /\ pc'[p] = "next" )
             => last' = Event("add", Current(p).id,
                              FirstFailingFileGate(Current(p).file, attachments))
          /\ ( /\ pc[p] = "next" /\ kind[p] = "image"
               /\ idx[p] \in 1..Len(files[p])
               /\ (pc'[p] # pc[p] \/ idx'[p] # idx[p])
               /\ Current(p).file.type # << >>
               /\ Current(p).file.type[1] = "image" )
             => /\ last' = Event("add", Current(p).id,
                                 FirstFailingImageGate(Current(p).file,
                                                       attachments, compressImages))
                /\ pc'[p] = "compress" <=> last'.res = "compressing"
          /\ ( pc[p] = "compress" /\ pc'[p] # "compress" )
             => /\ last'.op = "add" /\ last'.arg = Current(p).id
                /\ last'.res = "committed"
                /\ last'.compressor # NotAsked
          /\ last'.compressor # NotAsked =>
                (pc[p] = "compress" \/ pc'[p] = pc[p]) ]_vars

\* An image above 10 MiB has just been rejected for its size while the list
\* holds eight images: the count gate, which it would fail too, did not
\* decide.
C18_Witness ==
    /\ last.op = "add" /\ last.res = "too-large"
    /\ LastFile = Png(10 * 1024 * 1024 + 1)
    /\ Len(OfType(attachments, "image")) = 8

(***************************************************************************)
(* C19: every step that changes the list (a push by addAttachment,         *)
(* addYoutubeLink or addWikipediaLink, a removal, a clear) re-renders the  *)
(* preview from the list as it is after the change, within the same step,  *)
(* so between steps the preview shows one button per attachment, in list   *)
(* order, each carrying the 0-based position of its attachment.            *)
(***************************************************************************)
ShowsTheList(shown, atts) ==
    /\ Len(shown) = Len(atts)
    /\ \A i \in 1..Len(atts) :
          shown[i].index = i - 1 /\ shown[i].att = atts[i]

C19_PreviewFollowsList ==
    [][ /\ attachments' # attachments => ShowsTheList(preview', attachments')
        /\ attachments' = attachments => preview' = preview
        /\ ShowsTheList(preview', attachments') ]_vars

\* A removal has just been made from a list that holds images and a link,
\* and the buttons carry the new positions.
C19_Witness ==
    /\ last.op = "remove"
    /\ \E i, j \in 1..Len(attachments) :
           /\ attachments[i].type = "image"
           /\ attachments[j].type \in {"youtube", "wikipedia"}
    /\ ShowsTheList(preview, attachments)
    /\ preview[Len(preview)].index = Len(attachments) - 1

(***************************************************************************)
(* C20: when compressImages is false at the moment an image add has passed *)
(* its gates, compressAttachment is not called and the record pushed in    *)
(* that step holds the candidate's own file, bytes and type unchanged;     *)
(* when it is true the compressor is called.  The value read is the one    *)
(* at that moment: after a switch made while one image of a selection is   *)
(* suspended, the next image of the selection follows the new value.       *)
(***************************************************************************)
C20_ToggleReadAtEachAdd ==
    [][ /\ \A p \in Handlers :
              ( /\ pc[p] = "next" /\ kind[p] = "image"
                /\ idx[p] \in 1..Len(files[p])
                /\ (pc'[p] # pc[p] \/ idx'[p] # idx[p])
                /\ ValidImage(Current(p).file)
                /\ Len(OfType(attachments, "image")) < 8 )
              => IF compressImages
                 THEN /\ pc'[p] = "compress"
                      /\ attachments' = attachments
                 ELSE /\ pc'[p] = "next"
                      /\ CommittedAs("image", Current(p).id)
                      /\ attachments'[Len(attachments')].file = << Current(p).file >>
                      /\ last' = Event("add", Current(p).id, "committed")
        /\ last'.op = "toggle" =>
              /\ compressImages' = ~compressImages
              /\ attachments' = attachments /\ pc' = pc /\ idx' = idx
        /\ last'.op # "toggle" => compressImages' = compressImages ]_vars

\* Of one selection, an image was stored as the compressor shrank it and
\* the next one has just been pushed as submitted, the compressor not
\* called, the toggle having been switched off in between.
C20_Witness ==
    /\ ~compressImages
    /\ last.op = "add" /\ last.res = "committed" /\ last.compressor = NotAsked
    /\ \E p \in Handlers : \E k \in 1..(Len(files[p]) - 1) :
           /\ files[p][k + 1].id = last.arg
           /\ \E i, j \in 1..Len(attachments) :
                 /\ attachments[i].id = files[p][k].id
                 /\ attachments[i].file[1].size < attachments[i].orig
                 /\ attachments[j].id = files[p][k + 1].id
                 /\ attachments[j].file = << files[p][k + 1].file >>

(***************************************************************************)
(* C21: a call of compressAttachment that never returns holds up only its  *)
(* own candidate.  While an image add is suspended in compression, clear   *)
(* and removal can still be called, and every other candidate that was     *)
(* submitted, the later files of the same selection included, still        *)
(* reaches its end: a candidate that is not over is eventually over or is  *)
(* itself the one suspended in compression.                                *)
(***************************************************************************)
Unfinished(p, j) ==
    /\ pc[p] # "idle"
    /\ j \in idx[p]..Len(files[p])

InCompression(p, j) == pc[p] = "compress" /\ j = idx[p]

C21_HangStallsOnlyItsCandidate ==
    /\ []( (Quiescent /\ \E p \in Handlers : pc[p] = "compress")
            => /\ ENABLED clearAttachments
               /\ attachments # << >> => ENABLED RemoveClick(1) )
    /\ \A p \in Handlers : \A j \in 1..MaxIdLive :
          Unfinished(p, j) ~> (~Unfinished(p, j) \/ InCompression(p, j))

(***************************************************************************)
(* C22: every attachment of type 'image' or 'file' in the list records in  *)
(* sizeBytes the size its candidate had when it was submitted, also when   *)
(* the stored file is the smaller output of the compressor; a link         *)
(* attachment carries a URL and no file.                                   *)
(***************************************************************************)
C22_SizeBytesIsOriginalSize ==
    \A i \in 1..Len(attachments) :
        LET a == attachments[i]
        IN  IF a.type \in {"image", "file"}
            THEN a.file # << >> /\ a.sizeBytes = << a.orig >>
            ELSE a.url # << >> /\ a.file = << >>

(***************************************************************************)
(* C23: once clearAttachments has run, the list only ever holds records of *)
(* adds submitted after that clear: an add that was submitted before it    *)
(* and was still suspended at sniffing or in compression when it ran does  *)
(* not append its record afterwards.  Submissions are numbered in order,   *)
(* so the adds submitted after a clear are those numbered from nextId as   *)
(* it is at the clear.                                                     *)
(***************************************************************************)
C23_NothingFromBeforeTheClear ==
    \A n \in 1..(MaxIdLive + 1) :
        []( (last.op = "clear" /\ nextId = n)
            => [](\A i \in 1..Len(attachments) : attachments[i].id >= n) )

====
